---- MODULE Spec2Model ----
(***************************************************************************)
(* Model of P3/D3_Visualization_Web_App/main.js: the emissions page.       *)
(* One asynchronous fetch at startup, then selectors, legend and chart     *)
(* driven by change events, each handler running to completion.            *)
(*                                                                         *)
(* Strings of the page (hostnames, record fields, date texts) are TLA+     *)
(* strings; Len and SubSeq address their characters from 1.                *)
(***************************************************************************)
EXTENDS Integers, Sequences, FiniteSets, TLC

\* ------------------------------------------------------------------ bounds

\* Longest record array the fetch may deliver.
MaxRecords == 2

\* ------------------------------------------------------- generic helpers

Min(a, b) == IF a <= b THEN a ELSE b

Range(s) == {s[i] : i \in 1..Len(s)}

\* String.prototype.slice(i, i + w) on 1-based positions: the characters at
\* positions i .. i+w-1 that exist.
Slice(string, i, w) == SubSeq(string, i, Min(i + w - 1, Len(string)))

CharAt(string, i) == SubSeq(string, i, i)

\* String.prototype.endsWith
EndsWith(string, suffix) ==
    /\ Len(suffix) <= Len(string)
    /\ SubSeq(string, Len(string) - Len(suffix) + 1, Len(string)) = suffix

\* Position of the first occurrence of v in seq.
IndexOf(seq, v) == CHOOSE i \in 1..Len(seq) : seq[i] = v /\ \A j \in 1..(i - 1) : seq[j] # v

\* ----------------------------------------------------- 1. loading the data

localPath == "./Data/quarterly_greenhouse_long.json"

ghPagesPath == "https://mattzidell.github.io/DSC_209_P3/P3/D3_Visualization_Web_App/Data/quarterly_greenhouse_long.json"

isLocalhost(host) == host = "localhost" \/ host = "127.0.0.1" \/ host = ""

\* The remote file for every host that is not a local one.
dataUrlByLocalHost(host) == IF isLocalhost(host) THEN localPath ELSE ghPagesPath

dataUrlFor(host) ==
    IF EndsWith(host, "github.io") /\ ~isLocalhost(host) THEN ghPagesPath ELSE localPath

\* ------------------------------------------------ d3.utcParse (line 107)

specifier == "%Y-%m-%dT%H:%M:%S.%L"

IsDigit(c) == c \in {"0", "1", "2", "3", "4", "5", "6", "7", "8", "9"}

DigitVal(c) ==
    CASE c = "0" -> 0 [] c = "1" -> 1 [] c = "2" -> 2 [] c = "3" -> 3 [] c = "4" -> 4
      [] c = "5" -> 5 [] c = "6" -> 6 [] c = "7" -> 7 [] c = "8" -> 8 [] c = "9" -> 9

\* Number of leading white-space characters of s from position i on.
RECURSIVE SpaceRun(_, _)
SpaceRun(s, i) ==
    IF i <= Len(s) /\ CharAt(s, i) = " " THEN 1 + SpaceRun(s, i + 1) ELSE 0

\* Number of digits of s from position i on.
RECURSIVE DigitRun(_, _)
DigitRun(s, i) ==
    IF i <= Len(s) /\ IsDigit(CharAt(s, i)) THEN 1 + DigitRun(s, i + 1) ELSE 0

\* Decimal value of the digits s[i .. i+n-1].
RECURSIVE DigitsValue(_, _, _)
DigitsValue(s, i, n) ==
    IF n = 0 THEN 0
    ELSE DigitsValue(s, i, n - 1) * 10 + DigitVal(CharAt(s, i + n - 1))

\* numberRe = /^\s*\d+/ run on s: the matched length and its value, or a
\* length of -1 when nothing matches.
numberRe(s) ==
    LET sp == SpaceRun(s, 1)
        dg == DigitRun(s, sp + 1)
    IN  IF dg = 0 THEN [len |-> -1, val |-> 0]
        ELSE [len |-> sp + dg, val |-> DigitsValue(s, sp + 1, dg)]

\* Field width each directive reads.
DirectiveWidth(c) ==
    CASE c = "Y" -> 4 [] c = "L" -> 3 [] OTHER -> 2

\* One parses[c](d, string, j): the fields after the directive, and the next
\* position, or -1.
ParseDirective(d, c, string, j) ==
    LET n == numberRe(Slice(string, j, DirectiveWidth(c)))
    IN  IF ~(c \in {"Y", "m", "d", "H", "M", "S", "L"}) \/ n.len < 0
        THEN [d |-> d, j |-> -1]
        ELSE [d |-> CASE c = "Y" -> [d EXCEPT !.y = n.val]
                      [] c = "m" -> [d EXCEPT !.m = n.val - 1]
                      [] c = "d" -> [d EXCEPT !.d = n.val]
                      [] c = "H" -> [d EXCEPT !.H = n.val]
                      [] c = "M" -> [d EXCEPT !.M = n.val]
                      [] c = "S" -> [d EXCEPT !.S = n.val]
                      [] c = "L" -> [d EXCEPT !.L = n.val],
              j |-> j + n.len]

\* parseSpecifier(d, specifier, string, j), from position i of the specifier.
RECURSIVE parseSpecifier(_, _, _, _)
parseSpecifier(d, i, string, j) ==
    IF i > Len(specifier) THEN [d |-> d, j |-> j]
    ELSE IF j > Len(string) THEN [d |-> d, j |-> -1]
    ELSE IF CharAt(specifier, i) = "%"
         THEN LET r == ParseDirective(d, CharAt(specifier, i + 1), string, j)
              IN  IF r.j < 0 THEN r ELSE parseSpecifier(r.d, i + 2, string, r.j)
         ELSE IF CharAt(specifier, i) # CharAt(string, j) THEN [d |-> d, j |-> -1]
              ELSE parseSpecifier(d, i + 1, string, j + 1)

\* Days from 1970-01-01 to the first day of month m (0-based, any integer)
\* of year y, plus day - 1: ECMAScript MakeDay.
MakeDay(y, m, day) ==
    LET ym  == y + (m \div 12)
        mn  == (m % 12) + 1
        yy  == IF mn <= 2 THEN ym - 1 ELSE ym
        era == yy \div 400
        yoe == yy - era * 400
        mp  == (mn + 9) % 12
        doy == (153 * mp + 2) \div 5
        doe == yoe * 365 + (yoe \div 4) - (yoe \div 100) + doy
    IN  era * 146097 + doe - 719468 + (day - 1)

\* utcDate(d): Date.UTC of the parsed fields. The time value is kept as
\* <<day, millisecond of the day>>: the milliseconds since the epoch of a
\* present-day date exceed the model checker's integers.
utcDate(d) ==
    LET t == d.H * 3600000 + d.M * 60000 + d.S * 1000 + d.L
    IN  <<MakeDay(d.y, d.m, d.d) + (t \div 86400000), t % 86400000>>

\* A date that failed to parse: utcParse returns null.
null == <<>>

\* parseDate = d3.utcParse("%Y-%m-%dT%H:%M:%S.%L")
parseDate(string) ==
    LET r == parseSpecifier([y |-> 1900, m |-> 0, d |-> 1, H |-> 0, M |-> 0, S |-> 0, L |-> 0],
                            1, string, 1)
    IN  IF r.j # Len(string) + 1 THEN null ELSE utcDate(r.d)

\* a.date - b.date < 0 for two parsed dates
DateBefore(a, b) == a[1] < b[1] \/ (a[1] = b[1] /\ a[2] < b[2])

\* +d.emissions for a text of decimal digits (the empty text gives 0);
\* anything else is NaN, written -1.
ToNumber(text) ==
    IF DigitRun(text, 1) = Len(text) THEN DigitsValue(text, 1, Len(text)) ELSE -1

\* ------------------------------------------------------------ 2. selectors

\* Array.from(new Set(values)): first occurrences, in order.
RECURSIVE Distinct(_)
Distinct(values) ==
    IF values = <<>> THEN <<>>
    ELSE LET front == Distinct(SubSeq(values, 1, Len(values) - 1))
             last  == values[Len(values)]
         IN  IF last \in Range(front) THEN front ELSE Append(front, last)

getUniqueValues(data, key) ==
    Distinct([i \in 1..Len(data) |->
                CASE key = "Country"  -> data[i].Country
                  [] key = "Gas Type" -> data[i].GasType
                  [] key = "Industry" -> data[i].Industry])

\* The checked inputs, in document order.
getSelectedCountries(inputs, isChecked) ==
    SelectSeq(inputs, LAMBDA c : c \in isChecked)

\* The value of a <select>: the chosen option, or "" when it has none.
FirstOption(options) == IF options = <<>> THEN "" ELSE options[1]

\* Every input checked at startup.
CheckAll(inputs) == Range(inputs)

\* countryContainer.select("input").property("checked", true)
CheckFirst(inputs) == IF inputs = <<>> THEN {} ELSE {inputs[1]}

\* ------------------------------------------------------- color (line 106)

schemeTableau10 ==
    <<"#4e79a7", "#f28e2c", "#e15759", "#76b7b2", "#59a14f",
      "#edc949", "#af7aa1", "#ff9da7", "#9c755f", "#bab0ab">>

\* scaleOrdinal: a value not yet in the domain is appended to it.
DomainAfter(domain, d) == IF d \in Range(domain) THEN domain ELSE Append(domain, d)

RECURSIVE DomainAfterAll(_, _)
DomainAfterAll(domain, ds) ==
    IF ds = <<>> THEN domain ELSE DomainAfterAll(DomainAfter(domain, Head(ds)), Tail(ds))

color(domain, d) ==
    schemeTableau10[((IndexOf(DomainAfter(domain, d), d) - 1) % Len(schemeTableau10)) + 1]

\* ------------------------------------------------ 4. visualization function

\* The filter without its seasonal-adjustment test.
RetainedAnyAdjustment(d, selectedCountries, selectedGas, selectedIndustry) ==
    /\ d.Country \in Range(selectedCountries)
    /\ d.GasType = selectedGas
    /\ d.Industry = selectedIndustry

\* The filter predicate of lines 121-126.
Retained(d, selectedCountries, selectedGas, selectedIndustry) ==
    /\ d.Country \in Range(selectedCountries)
    /\ d.GasType = selectedGas
    /\ d.Industry = selectedIndustry
    /\ d.SeasonalAdjustment = "Seasonally Adjusted"

\* The point of lines 127-131.
PointOf(d) ==
    [country |-> d.Country, date |-> parseDate(d.date), emissions |-> ToNumber(d.emissions)]

filtered(data, selectedCountries, selectedGas, selectedIndustry) ==
    LET kept == SelectSeq(data,
                  LAMBDA d : Retained(d, selectedCountries, selectedGas, selectedIndustry))
    IN  [i \in 1..Len(kept) |-> PointOf(kept[i])]

\* d.date.getTime() on a null date: an uncaught TypeError ends the handler.
RollupThrows(points) == \E i \in 1..Len(points) : points[i].date = null

\* The reducer v => v[v.length - 1]: the last point of each group.
LastPerDate(points) ==
    SelectSeq([i \in 1..Len(points) |->
                 [p |-> points[i],
                  first |-> \A j \in (i + 1)..Len(points) : points[j].date # points[i].date]],
              LAMBDA e : e.first)

\* One group of the rollup reduced by v => v[0]: the points of a country,
\* one per time value, each the first of its group, groups in first-seen order.
FirstPerDate(points) ==
    SelectSeq([i \in 1..Len(points) |->
                 [p |-> points[i],
                  first |-> \A j \in 1..(i - 1) : points[j].date # points[i].date]],
              LAMBDA e : e.first)

\* filteredUnique of lines 137-145: [country, values] in first-seen order.
rollup(points) ==
    LET keys == Distinct([i \in 1..Len(points) |-> points[i].country])
    IN  [k \in 1..Len(keys) |->
           LET own == SelectSeq(points, LAMBDA p : p.country = keys[k])
               fst == FirstPerDate(own)
           IN  [country |-> keys[k], values |-> [i \in 1..Len(fst) |-> fst[i].p]]]

\* values.sort((a, b) => a.date - b.date): a stable insertion sort.
RECURSIVE InsertByDate(_, _)
InsertByDate(sorted, p) ==
    IF sorted = <<>> THEN <<p>>
    ELSE IF DateBefore(p.date, sorted[Len(sorted)].date)
         THEN Append(InsertByDate(SubSeq(sorted, 1, Len(sorted) - 1), p), sorted[Len(sorted)])
         ELSE Append(sorted, p)

\* No sort before the line is drawn.
Unsorted(values) == values

RECURSIVE SortByDate(_)
SortByDate(values) ==
    IF values = <<>> THEN <<>>
    ELSE InsertByDate(SortByDate(SubSeq(values, 1, Len(values) - 1)), values[Len(values)])

\* Paths stroked by their position among the drawn series.
DrawnPathsByIndex(series, domain) ==
    [k \in 1..Len(series) |->
       [stroke |-> schemeTableau10[((k - 1) % Len(schemeTableau10)) + 1],
        d      |-> SortByDate(series[k].values),
        title  |-> series[k].country]]

\* The children appended to the chart group by lines 163-197: the two axes
\* and the group of paths, one path per entry of filteredUnique.
DrawnPaths(series, domain) ==
    [k \in 1..Len(series) |->
       [stroke |-> color(domain, series[k].country),
        d      |-> SortByDate(series[k].values),
        title  |-> series[k].country]]

\* The draw without the early return of line 149.
DrawWithoutReturn(series, domain) ==
    << [role |-> "axisBottom", paths |-> <<>>],
       [role |-> "axisLeft",   paths |-> <<>>],
       [role |-> "lines",      paths |-> DrawnPaths(series, domain)] >>

Draw(series, domain) ==
    IF Len(series) = 0 THEN <<>>
    ELSE << [role |-> "axisBottom", paths |-> <<>>],
            [role |-> "axisLeft",   paths |-> <<>>],
            [role |-> "lines",      paths |-> DrawnPaths(series, domain)] >>

\* The sort of line 195 is in place: after the draw the arrays of
\* filteredUnique are the sorted ones.
AfterDraw(series) ==
    [k \in 1..Len(series) |->
       [country |-> series[k].country, values |-> SortByDate(series[k].values)]]

\* ------------------------------------------------------------- the legend

\* selection.data(data, d => d), then exit().remove(), enter().append("div")
\* and the restyle of the update selection. rows: the .legend-item nodes in
\* document order, each with its datum, the background of its first span and
\* whether this call created it.
\* A join whose exit selection holds only duplicated rows.
IsExitDuplicateOnly(rows, i, data) ==
    \E j \in 1..(i - 1) : rows[j].datum = rows[i].datum

IsExit(rows, i, data) ==
    \/ \E j \in 1..(i - 1) : rows[j].datum = rows[i].datum
    \/ ~(rows[i].datum \in Range(data))

IsEnter(rows, data, i) ==
    \/ \E j \in 1..(i - 1) : data[j] = data[i]
    \/ ~(\E r \in 1..Len(rows) : rows[r].datum = data[i])

\* The update node that follows data[i]: the datum of the first update
\* entry after i, or "" when there is none.
NextUpdate(rows, data, i) ==
    IF \E j \in (i + 1)..Len(data) : ~IsEnter(rows, data, j)
    THEN data[CHOOSE j \in (i + 1)..Len(data) :
                   /\ ~IsEnter(rows, data, j)
                   /\ \A k \in (i + 1)..(j - 1) : IsEnter(rows, data, k)]
    ELSE ""

\* parent.insertBefore(child, next)
InsertBefore(rows, row, next) ==
    IF next = "" \/ ~(\E r \in 1..Len(rows) : rows[r].datum = next /\ ~rows[r].created)
    THEN Append(rows, row)
    ELSE LET at == CHOOSE r \in 1..Len(rows) : rows[r].datum = next /\ ~rows[r].created
         IN  SubSeq(rows, 1, at - 1) \o <<row>> \o SubSeq(rows, at, Len(rows))

RECURSIVE AppendEntered(_, _, _, _, _)
AppendEntered(dom, old, data, i, domain) ==
    IF i > Len(data) THEN dom
    ELSE IF IsEnter(old, data, i)
         THEN AppendEntered(
                InsertBefore(dom,
                             [datum |-> data[i], color |-> color(domain, data[i]), created |-> TRUE],
                             NextUpdate(old, data, i)),
                old, data, i + 1, domain)
         ELSE AppendEntered(dom, old, data, i + 1, domain)

\* The arguments of the calls of color made by updateLegend, in order: the
\* entered rows (line 231), then the updated ones (line 237).
LegendColorCalls(rows, data) ==
    SelectSeq(data, LAMBDA d : ~(\E r \in 1..Len(rows) : rows[r].datum = d))
      \o SelectSeq(data, LAMBDA d : \E r \in 1..Len(rows) : rows[r].datum = d)

\* domain: the domain of the color scale once the calls above are made (the
\* position of a value in it never changes afterwards).
updateLegend(rows, selectedCountries, domain) ==
    LET kept    == SelectSeq([i \in 1..Len(rows) |->
                                [row |-> rows[i], exit |-> IsExit(rows, i, selectedCountries)]],
                             LAMBDA e : ~e.exit)
        updated == [i \in 1..Len(kept) |->
                      [datum   |-> kept[i].row.datum,
                       color   |-> color(domain, kept[i].row.datum),
                       created |-> FALSE]]
    IN  AppendEntered(updated, rows, selectedCountries, 1, domain)

\* updateVisualization (lines 112-198) run on the page's state, in the
\* order of the code; each stage hands its locals to the next.

\* Lines 147-197. A TypeError of the rollup has ended the call before the
\* chart group is cleared; filteredUnique is then never assigned, written <<>>.
Render(selC, gas, industry, rows, throws, series, chart, domain) ==
    [selectedCountries |-> selC,
     selectedGas       |-> gas,
     selectedIndustry  |-> industry,
     legend            |-> rows,
     threw             |-> throws,
     filteredUnique    |-> AfterDraw(series),
     chartGroup        |-> IF throws THEN chart ELSE Draw(series, domain),
     colorDomain       |-> domain]

\* The color scale's domain once the paths are stroked (line 193).
Stroke(selC, gas, industry, rows, throws, series, chart, domain) ==
    Render(selC, gas, industry, rows, throws, series, chart,
           DomainAfterAll(domain, [k \in 1..Len(series) |-> series[k].country]))

\* Lines 137-145.
Aggregate(selC, gas, industry, rows, throws, points, chart, domain) ==
    Stroke(selC, gas, industry, rows, throws,
           IF throws THEN <<>> ELSE rollup(points), chart, domain)

\* Lines 117-131: the legend, then the filter.
Filter(data, selC, gas, industry, rows, points, chart, domain) ==
    Aggregate(selC, gas, industry, updateLegend(rows, selC, domain),
              RollupThrows(points), points, chart, domain)

\* Lines 113-115.
Select(data, selC, gas, industry, rows, chart, domain) ==
    Filter(data, selC, gas, industry, rows,
           filtered(data, selC, gas, industry), chart,
           DomainAfterAll(domain, LegendColorCalls(rows, selC)))

updateVisualization(data, inputs, isChecked, gas, industry, rows, chart, domain) ==
    Select(data, getSelectedCountries(inputs, isChecked), gas, industry, rows, chart, domain)

\* loadEmissionData's try/catch (lines 14-21): the parsed body, or [] when
\* fetch or response.json() rejects.
loadEmissionData(outcome, body) == IF outcome = "ok" THEN body ELSE <<>>

\* ------------------------------------------------------------ input sets

Hosts == {"localhost", "127.0.0.1", "", "mattzidell.github.io", "example.com"}

Ref ==
    [Country |-> "USA", GasType |-> "CO2", Industry |-> "Power",
     SeasonalAdjustment |-> "Seasonally Adjusted",
     date |-> "2020-04-01T00:00:00.000", emissions |-> "10"]

\* Date texts other than Ref's: the same instant written without padding,
\* an earlier quarter, and a text the format does not accept.
OtherDates == {"2020-4-1T0:00:00.000", "2020-01-01T00:00:00.000", "2020-01-01"}

\* The reference record and the records differing from it in one field.
Records ==
    {Ref, [Ref EXCEPT !.Country = "CAN"], [Ref EXCEPT !.GasType = "CH4"],
     [Ref EXCEPT !.Industry = "Transport"],
     [Ref EXCEPT !.SeasonalAdjustment = "Not Adjusted"],
     [Ref EXCEPT !.emissions = "99"]}
      \cup {[Ref EXCEPT !.date = t] : t \in OtherDates}

Datasets == UNION {[1..n -> Records] : n \in 0..MaxRecords}

\* ----------------------------------------------------------------- state

VARIABLES
    phase,              \* "loading", "initialized" (top level done), "interactive"
    host,               \* window.location.hostname
    dataUrl,            \* the URL handed to fetch
    outcome,            \* of the fetch: "pending", "ok", "network error", "not JSON"
    emissionData, countries, gasTypes, industries,
    checked,            \* the checked region inputs
    gasValue, industryValue,          \* the values of the two <select>s
    colorDomain,        \* domain of the ordinal color scale
    legend,             \* the .legend-item rows of #legend
    chartGroup,         \* the children of g.chart-content
    selectedCountries, selectedGas, selectedIndustry, filteredUnique,
                        \* locals of the last updateVisualization call
    threw               \* that call ended in an uncaught TypeError

vars == <<phase, host, dataUrl, outcome, emissionData, countries, gasTypes, industries,
          checked, gasValue, industryValue, colorDomain, legend, chartGroup,
          selectedCountries, selectedGas, selectedIndustry, filteredUnique, threw>>

\* The page while the fetch of line 24 is awaited.
Init ==
    /\ phase = "loading"
    /\ host \in Hosts
    /\ dataUrl = dataUrlFor(host)
    /\ outcome = "pending"
    /\ emissionData = <<>> /\ countries = <<>> /\ gasTypes = <<>> /\ industries = <<>>
    /\ checked = {} /\ gasValue = "" /\ industryValue = ""
    /\ colorDomain = <<>> /\ legend = <<>> /\ chartGroup = <<>>
    /\ selectedCountries = <<>> /\ selectedGas = "" /\ selectedIndustry = ""
    /\ filteredUnique = <<>> /\ threw = FALSE

\* The page after a call of updateVisualization that returned r.
Assign(isChecked, gas, industry, r) ==
    /\ checked' = isChecked
    /\ gasValue' = gas
    /\ industryValue' = industry
    /\ selectedCountries' = r.selectedCountries
    /\ selectedGas' = r.selectedGas
    /\ selectedIndustry' = r.selectedIndustry
    /\ legend' = r.legend
    /\ chartGroup' = r.chartGroup
    /\ filteredUnique' = r.filteredUnique
    /\ colorDomain' = r.colorDomain
    /\ threw' = r.threw

\* Lines 24-209 once the fetch has settled: selectors, color scale, default
\* selection and the first updateVisualization.
Startup(result, body) ==
    /\ phase' = "initialized"
    /\ outcome' = result
    /\ emissionData' = loadEmissionData(result, body)
    /\ countries' = getUniqueValues(emissionData', "Country")
    /\ gasTypes' = getUniqueValues(emissionData', "Gas Type")
    /\ industries' = getUniqueValues(emissionData', "Industry")
    /\ \E r \in {updateVisualization(emissionData', countries', CheckFirst(countries'),
                                     FirstOption(gasTypes'), FirstOption(industries'),
                                     legend, chartGroup, DomainAfterAll(<<>>, countries'))} :
          Assign(CheckFirst(countries'), FirstOption(gasTypes'), FirstOption(industries'), r)
    /\ UNCHANGED <<host, dataUrl>>

\* body: the array the data file holds, whether or not it arrives.
FetchResolves ==
    /\ phase = "loading"
    /\ \E body \in Datasets : Startup("ok", body)

FetchRejects ==
    /\ phase = "loading"
    /\ \E body \in Datasets : Startup("network error", body)

JsonRejects ==
    /\ phase = "loading"
    /\ \E body \in Datasets : Startup("not JSON", body)

\* 5. interactivity: the change handlers of lines 203-205.
Event(isChecked, gas, industry) ==
    /\ phase \in {"initialized", "interactive"}
    /\ phase' = "interactive"
    /\ UNCHANGED <<host, dataUrl, outcome, emissionData, countries, gasTypes, industries>>
    /\ \E r \in {updateVisualization(emissionData, countries, isChecked, gas, industry,
                                     legend, chartGroup, colorDomain)} :
          Assign(isChecked, gas, industry, r)

CountryChange ==
    \E c \in Range(countries) :
        Event(IF c \in checked THEN checked \ {c} ELSE checked \cup {c}, gasValue, industryValue)

GasChange ==
    \E g \in Range(gasTypes) : g # gasValue /\ Event(checked, g, industryValue)

IndustryChange ==
    \E i \in Range(industries) : i # industryValue /\ Event(checked, gasValue, i)

Next ==
    \/ FetchResolves
    \/ FetchRejects
    \/ JsonRejects
    \/ CountryChange
    \/ GasChange
    \/ IndustryChange

Spec == Init /\ [][Next]_vars

\* ------------------------------------------------------------- properties

Ready == phase # "loading"

\* The record passes the four tests under the controls' current state.
Passes(d) ==
    /\ d.Country \in checked
    /\ d.GasType = gasValue
    /\ d.Industry = industryValue
    /\ d.SeasonalAdjustment = "Seasonally Adjusted"

\* The paths of the chart group.
Lines == IF chartGroup = <<>> THEN <<>> ELSE chartGroup[3].paths

\* C1: every point of every series of filteredUnique is the point of a record
\* whose Country is checked, whose gas type and industry are the selected
\* ones and whose seasonal adjustment is "Seasonally Adjusted".
C1_PointsComeFromRetainedRecords ==
    Ready =>
      \A k \in 1..Len(filteredUnique) :
        \A a \in 1..Len(filteredUnique[k].values) :
          \E i \in 1..Len(emissionData) :
            /\ Passes(emissionData[i])
            /\ emissionData[i].Country = filteredUnique[k].country
            /\ PointOf(emissionData[i]) = filteredUnique[k].values[a]

\* A record set with a "Not Adjusted" record of the checked region, selected
\* gas and industry, and a drawn series.
C1_Witness ==
    /\ Ready
    /\ filteredUnique # <<>>
    /\ \E i \in 1..Len(emissionData) :
         /\ emissionData[i].SeasonalAdjustment # "Seasonally Adjusted"
         /\ emissionData[i].Country \in checked
         /\ emissionData[i].GasType = gasValue
         /\ emissionData[i].Industry = industryValue

\* Index of the first passing record of the region with the parsed time t.
FirstRecord(region, t) ==
    CHOOSE i \in 1..Len(emissionData) :
      /\ Passes(emissionData[i]) /\ emissionData[i].Country = region
      /\ parseDate(emissionData[i].date) = t
      /\ \A j \in 1..(i - 1) :
           ~(/\ Passes(emissionData[j]) /\ emissionData[j].Country = region
             /\ parseDate(emissionData[j].date) = t)

\* C2: a region's series holds at most one point per parsed time value, and
\* the point kept is that of the first passing record, in input order, of
\* that region and time.
C2_OnePointPerTimestampFirstWins ==
    Ready =>
      \A k \in 1..Len(filteredUnique) :
        LET e == filteredUnique[k]
        IN  \A a \in 1..Len(e.values) :
              /\ \A b \in 1..Len(e.values) : a # b => e.values[a].date # e.values[b].date
              /\ \E i \in 1..Len(emissionData) :
                   /\ Passes(emissionData[i]) /\ emissionData[i].Country = e.country
                   /\ parseDate(emissionData[i].date) = e.values[a].date
              /\ e.values[a] = PointOf(emissionData[FirstRecord(e.country, e.values[a].date)])

\* Two passing records of one region with the same parsed time and different
\* emissions, and that region's series drawn.
C2_Witness ==
    /\ Ready /\ ~threw /\ filteredUnique # <<>>
    /\ \E i, j \in 1..Len(emissionData) :
         /\ i < j
         /\ Passes(emissionData[i]) /\ Passes(emissionData[j])
         /\ emissionData[i].Country = emissionData[j].Country
         /\ parseDate(emissionData[i].date) = parseDate(emissionData[j].date)
         /\ emissionData[i].emissions # emissionData[j].emissions

Ascending(values) ==
    \A a \in 1..(Len(values) - 1) : ~DateBefore(values[a + 1].date, values[a].date)

\* C3: the points handed to the line generator for a region, and the series
\* left by the call, have non-decreasing time values.
C3_SeriesSortedByTimestamp ==
    Ready =>
      /\ \A k \in 1..Len(Lines) : Ascending(Lines[k].d)
      /\ \A k \in 1..Len(filteredUnique) : Ascending(filteredUnique[k].values)

\* A line of two points drawn from records given latest first.
C3_Witness ==
    /\ Ready /\ ~threw
    /\ \E k \in 1..Len(Lines) : Len(Lines[k].d) >= 2
    /\ \E i, j \in 1..Len(emissionData) :
         /\ i < j
         /\ Passes(emissionData[i]) /\ Passes(emissionData[j])
         /\ emissionData[i].Country = emissionData[j].Country
         /\ parseDate(emissionData[i].date) # null /\ parseDate(emissionData[j].date) # null
         /\ DateBefore(parseDate(emissionData[j].date), parseDate(emissionData[i].date))

\* The passing records whose date parses, as points.
ParseablePoints ==
    LET kept == SelectSeq(emissionData, LAMBDA d : Passes(d) /\ parseDate(d.date) # null)
    IN  [i \in 1..Len(kept) |-> PointOf(kept[i])]

\* C4: with a passing record whose date does not parse, the call completes
\* and the chart group holds the drawing of the remaining records.
C4_ParseFailureIsSkipped ==
    (Ready /\ \E i \in 1..Len(emissionData) :
                Passes(emissionData[i]) /\ parseDate(emissionData[i].date) = null)
      => /\ ~threw
         /\ chartGroup = Draw(rollup(ParseablePoints), colorDomain)

\* C5: after a failed fetch the record set is empty, initialization has
\* completed with no option in any selector, nothing checked and an empty
\* chart group, and the outcome of the one fetch is never replaced.
C5_FetchFailureGivesEmptyPage ==
    /\ [](outcome \in {"network error", "not JSON"} =>
            /\ Ready /\ ~threw
            /\ emissionData = <<>>
            /\ countries = <<>> /\ gasTypes = <<>> /\ industries = <<>>
            /\ checked = {} /\ selectedCountries = <<>>
            /\ legend = <<>> /\ chartGroup = <<>>)
    /\ [][outcome # "pending" => outcome' = outcome]_vars

C5_Witness == Ready /\ outcome = "not JSON" /\ host = "mattzidell.github.io"

\* Regions with a passing record whose date parses.
RegionsWithPoints ==
    {c \in Range(countries) :
       \E i \in 1..Len(emissionData) :
         /\ Passes(emissionData[i]) /\ emissionData[i].Country = c
         /\ parseDate(emissionData[i].date) # null}

\* C6: the chart group holds one line per region of the series of the
\* current selection and nothing of an earlier one; with no such region it
\* has no children, and no error was raised.
C6_ChartShowsCurrentSelectionOnly ==
    Ready =>
      /\ ~threw
      /\ Len(Lines) = Cardinality(RegionsWithPoints)
      /\ {Lines[k].title : k \in 1..Len(Lines)} = RegionsWithPoints
      /\ (RegionsWithPoints = {} => chartGroup = <<>>)

LegendRegions == {legend[r].datum : r \in 1..Len(legend)}

\* C7: the legend has exactly one row per checked region and no other row;
\* a call creates rows only for regions that had none and keeps the rows of
\* the regions that stay checked.
C7_LegendMatchesCheckedRegions ==
    /\ [](Ready => /\ LegendRegions = checked
                   /\ Len(legend) = Cardinality(checked))
    /\ [][\A r \in 1..Len(legend') :
             legend'[r].created <=> ~(legend'[r].datum \in LegendRegions)]_vars

\* A legend row kept from an earlier call while the chart is empty.
C7_Witness ==
    /\ phase = "interactive" /\ ~threw
    /\ chartGroup = <<>>
    /\ \E r \in 1..Len(legend) : ~legend[r].created

\* The color of a region by its place in the startup region list.
StartupColor(c) ==
    schemeTableau10[((IndexOf(countries, c) - 1) % Len(schemeTableau10)) + 1]

\* C8: every line and every legend row of a region has the color given by
\* the region's place in the full region list, whatever is checked.
C8_RegionColorIsStable ==
    Ready =>
      /\ \A k \in 1..Len(Lines) : Lines[k].stroke = StartupColor(Lines[k].title)
      /\ \A r \in 1..Len(legend) : legend[r].color = StartupColor(legend[r].datum)
      /\ colorDomain = countries

\* The second region of the list drawn alone.
C8_Witness ==
    /\ phase = "interactive" /\ ~threw
    /\ Len(countries) = 2 /\ checked = {countries[2]}
    /\ Len(Lines) = 1 /\ Lines[1].title = countries[2]

\* C9, first reading: the local path for a local host, the remote URL for every
\* other hostname.
C9_RemoteForEveryOtherHost ==
    dataUrl = IF host \in {"localhost", "127.0.0.1", ""} THEN localPath ELSE ghPagesPath

\* C9, as the code has it: the remote URL exactly for the hostnames ending in
\* "github.io", the local path for every other hostname.
C9_RemoteOnlyForGithubIo ==
    /\ (EndsWith(host, "github.io") => dataUrl = ghPagesPath)
    /\ (~EndsWith(host, "github.io") => dataUrl = localPath)
    /\ (host \in {"localhost", "127.0.0.1", ""} => dataUrl = localPath)

\* The fetch made from a host that is neither local nor on github.io.
C9_Witness == Ready /\ host = "example.com" /\ dataUrl = localPath

\* C10, first reading: after initialization of any record set, exactly one
\* region, the first, is checked, and the first gas type and industry are
\* selected.
C10_OneRegionSelectedAlways ==
    phase = "initialized" =>
      /\ Cardinality(checked) = 1
      /\ gasValue \in Range(gasTypes)
      /\ industryValue \in Range(industries)

\* C10, restricted: for a non-empty record set, initialization ends with the
\* region, gas type and industry of the first record selected, and the first
\* call of updateVisualization read that selection.
C10_FirstOptionsSelected ==
    (phase = "initialized" /\ emissionData # <<>>) =>
      /\ checked = {emissionData[1].Country}
      /\ gasValue = emissionData[1].GasType
      /\ industryValue = emissionData[1].Industry
      /\ countries[1] = emissionData[1].Country
      /\ gasTypes[1] = emissionData[1].GasType
      /\ industries[1] = emissionData[1].Industry
      /\ selectedCountries = <<emissionData[1].Country>>
      /\ selectedGas = gasValue
      /\ selectedIndustry = industryValue
      /\ LegendRegions = checked
      /\ (~threw => {Lines[k].title : k \in 1..Len(Lines)} \subseteq checked)

\* Initialization of a record set of two regions, the first one drawn.
C10_Witness ==
    /\ phase = "initialized" /\ Len(countries) = 2
    /\ Len(Lines) = 1 /\ Lines[1].title = countries[1]

====
